---- MODULE Spec2Model ----
(***************************************************************************)
(* runtime-final: final classes and final methods enforced when a class    *)
(* statement is executed.  The repository holds two revisions of the       *)
(* module: src/src/runtime_final.py ("module") and                         *)
(* src/runtime_final/__init__.py ("package").  Both are modelled; the      *)
(* variable impl says which one a behaviour runs.                          *)
(*                                                                         *)
(* A class statement is one action.  It follows type.__new__: the body is  *)
(* executed (every decorator runs), the method resolution order is         *)
(* computed, __set_name__ is called on every _Final instance of the        *)
(* namespace in the order of the body, and then __init_subclass__ of the   *)
(* next class in the method resolution order is called with the new class. *)
(* Operators take what they read as parameters, so that each is a direct   *)
(* transcription of a few lines of the source.                             *)
(***************************************************************************)
EXTENDS Integers, Sequences, FiniteSets, TLC

(* ---------------- bounds ---------------- *)
\* classes a program defines, member declarations in one class body, size of
\* a program (see ProgramSize)
MaxClasses == 3
MaxBody == 2
MaxCost == 3
\* positional arguments in a call of a value that final returned
MaxArgs == 2

(* ---------------- small input sets ---------------- *)
Impls == {"module", "package"}
MemberNames == {"edit", "value"}
Shapes == {"function", "property", "classmethod", "staticmethod"}
\* targets final does not support: one that accepts no new attribute (an
\* int) and one that does (an instance of a class of the program)
Unsupported == {"int", "instance"}
\* the class name the hook of the tests accepts (test_init_subclass)
HookRequires == "Test2"

\* impl: the revision that runs; shape: the shape in which the program
\* declares its members; classes: the classes that exist, in the order of
\* their class statements; last: the latest statement and how it ended
VARIABLES impl, shape, classes, last
vars == <<impl, shape, classes, last>>

(* ---------------- values ---------------- *)
\* The absent attribute, the default object.__init_subclass__, a hook written
\* in a class body (it accepts exactly the classes named `requires`), and the
\* two hooks of the library.  home is the class whose body or whose
\* __set_name__ created the function (0 for module-level functions).
NoHook == [kind |-> "absent", requires |-> "", home |-> 0]
ObjectHook == [kind |-> "object", requires |-> "", home |-> 0]
UserHook(c) == [kind |-> "user", requires |-> HookRequires, home |-> c]
ForbidSubclassing == [kind |-> "_forbid_subclassing", requires |-> "", home |-> 0]
ForbidOverriding(c) == [kind |-> "_forbid_overriding_finals", requires |-> "", home |-> c]

\* A member object: created by the declaration of `decl` in the body of
\* class cls (late: handed to final and bound after the class statement);
\* marked says that final() set its marker attribute on the underlying
\* function.  Wrapper is the _Final instance the namespace holds until
\* __set_name__ replaces it.
NoObj == [cls |-> 0, decl |-> "", shape |-> "absent", marked |-> FALSE, late |-> FALSE]
Wrapper(c, d) == [cls |-> c, decl |-> d, shape |-> "_Final", marked |-> FALSE, late |-> FALSE]

\* Registry values: the name is not in __runtime_final_methods__, or (package
\* revision, a set of names) it is an element of the set.
Unregistered == ""
InSet == "<member>"
NoRegistry == [present |-> FALSE, map |-> [m \in MemberNames |-> Unregistered]]
EmptyRegistry == [present |-> TRUE, map |-> [m \in MemberNames |-> Unregistered]]

(* ---------------- the method resolution order ---------------- *)
SeqToSet(s) == {s[i] : i \in 1..Len(s)}

\* the first list whose head is in the tail of no list
FirstGood(live) ==
  LET good == {i \in 1..Len(live) :
                 \A j \in 1..Len(live) : Head(live[i]) \notin SeqToSet(Tail(live[j]))}
  IN  IF good = {} THEN 0 ELSE CHOOSE k \in good : \A l \in good : k <= l

DropHead(live, h) ==
  [j \in 1..Len(live) |-> IF Head(live[j]) = h THEN Tail(live[j]) ELSE live[j]]

\* type.__new__ linearises the bases (C3).  <<0>> marks "Cannot create a
\* consistent method resolution order" (TypeError).
RECURSIVE Merge(_)
RECURSIVE MergeLive(_, _)
MergeLive(live, i) ==
  IF Len(live) = 0 THEN <<>>
  ELSE IF i = 0 THEN <<0>>
  ELSE <<Head(live[i])>> \o Merge(DropHead(live, Head(live[i])))

NonEmpty(l) == Len(l) > 0
Live(lists) == SelectSeq(lists, NonEmpty)
PickFrom(live) == MergeLive(live, IF Len(live) = 0 THEN 0 ELSE FirstGood(live))
Merge(lists) == PickFrom(Live(lists))

Linearise(T, c, bases) ==
  <<c>> \o Merge([i \in 1..Len(bases) |-> T[bases[i]].mro] \o <<bases>>)

(* ---------------- attribute lookup ---------------- *)
\* getattr(cls, attr): the first class of the method resolution order whose
\* own __dict__ holds the attribute, 0 when only `object` is left.
FirstOf(order, hits) ==
  IF hits = {} THEN 0 ELSE order[CHOOSE i \in hits : \A j \in hits : i <= j]

WithRegistry(T, order) == {i \in 1..Len(order) : T[order[i]].rfm.present}
WithHook(T, order) == {i \in 1..Len(order) : T[order[i]].hook.kind # "absent"}
WithOld(T, order) == {i \in 1..Len(order) : T[order[i]].old.kind # "absent"}

\* getattr through the classes of `order`
MemberOf(T, order, m) ==
  LET hits == {i \in 1..Len(order) : T[order[i]].ns[m].shape # "absent"}
  IN  IF hits = {} THEN NoObj
      ELSE T[order[CHOOSE i \in hits : \A j \in hits : i <= j]].ns[m]

\* a lookup that reads the own __dict__ of class c only
RegistryOwnerOwnDict(T, c) == IF T[c].rfm.present THEN c ELSE 0

\* the class whose __runtime_final_methods__ class c sees
RegistryOwner(T, c) == FirstOf(T[c].mro, WithRegistry(T, T[c].mro))
RegistryAt(T, r) == IF r = 0 THEN NoRegistry ELSE T[r].rfm
\* cls.__runtime_final_methods__ as seen from class c
RegistryOf(T, c) == RegistryAt(T, RegistryOwner(T, c))

\* owner.__init_subclass__ : the function found, `object`'s when no class
\* of the order defines one
HookAt(T, k) == IF k = 0 THEN ObjectHook ELSE T[k].hook
HookFrom(T, order) == HookAt(T, FirstOf(order, WithHook(T, order)))

(* ---------------- the subclass hooks ---------------- *)
\* What a call of a hook returns: the exception it ends in, the calls of
\* hooks written in class bodies, and the log of what ran, in order: "check"
\* for the loop of _forbid_overriding_finals over the final names (passed
\* when it raised nothing), "hook" for a hook of a class body, "sealed" for
\* _forbid_subclassing.
Ok == [error |-> "none", calls |-> <<>>, log |-> <<>>]
Raise(e) == [error |-> e, calls |-> <<>>, log |-> <<>>]
Event(k, f, cls, passed) ==
  [kind |-> k, hook |-> f.home, subject |-> cls, passed |-> passed]
\* the event ev ran, then what gave the result r
After(ev, r) == [r EXCEPT !.log = <<ev>> \o r.log]

\* module revision, lines 60-68: a name of the registry reg that the own
\* __dict__ of the class rec holds and that was finalised under another
\* qualified name
ModuleOverride(reg, rec) ==
  \E m \in MemberNames :
     /\ reg.map[m] # Unregistered
     /\ rec.ns[m].shape # "absent"
     /\ reg.map[m] # rec.name

\* package revision, lines 74-76
PackageOverride(reg, rec) ==
  \E m \in MemberNames :
     /\ reg.map[m] # Unregistered
     /\ rec.ns[m].shape # "absent"

Overrides(im, reg, rec) ==
  IF im = "module" THEN ModuleOverride(reg, rec) ELSE PackageOverride(reg, rec)

\* A bound method keeps the class it was taken from: [f, self].
BoundAt(T, r) ==
  IF r = 0 THEN [f |-> NoHook, self |-> 0] ELSE [f |-> T[r].old, self |-> r]

\* The previous hook as the running hook f finds it: the closure variable
\* old_init_subclass of the class that installed f (module), or
\* getattr(cls, "__runtime_old_init_subclass__", None) (package).
SavedHook(im, T, f, cls) ==
  IF im = "module" THEN BoundAt(T, f.home)
  ELSE BoundAt(T, FirstOf(T[cls].mro, WithOld(T, T[cls].mro)))

\* a hook written in a class body, as in test_init_subclass: it accepts the
\* classes named f.requires
CallUser(f, rec, cls) ==
  [error |-> IF rec.name = f.requires THEN "none" ELSE "AssertionError",
   calls |-> <<[hook |-> f.home, subject |-> cls]>>,
   log |-> <<Event("hook", f, cls, rec.name = f.requires)>>]

\* f(cls) for a hook function f called with the class cls.  depth counts the
\* calls still allowed before the interpreter raises RecursionError.
RECURSIVE CallHook(_, _, _, _, _)
RECURSIVE CallSaved(_, _, _, _)
RECURSIVE ForbidOverridingFinals(_, _, _, _, _, _)

\* if old_init_subclass: old_init_subclass()
CallSaved(im, T, old, depth) ==
  IF old.f.kind = "absent" THEN Ok
  ELSE CallHook(im, T, old.f, old.self, depth - 1)

\* a hook that calls the saved hook first and goes through the final names
\* afterwards
ForbidOverridingFinalsLast(im, T, f, cls, depth, reg) ==
  LET r == CallSaved(im, T, SavedHook(im, T, f, cls), depth)
  IN  IF r.error # "none" THEN r
      ELSE [r EXCEPT !.log = r.log \o <<Event("check", f, cls, ~Overrides(im, reg, T[cls]))>>,
                     !.error = IF Overrides(im, reg, T[cls]) THEN "RuntimeError"
                               ELSE "none"]

\* _forbid_overriding_finals(cls), reg being cls.__runtime_final_methods__
ForbidOverridingFinals(im, T, f, cls, depth, reg) ==
  IF im = "module" /\ ~reg.present THEN Raise("AttributeError")
  ELSE IF Overrides(im, reg, T[cls])
  THEN After(Event("check", f, cls, FALSE), Raise("RuntimeError"))
  ELSE After(Event("check", f, cls, TRUE),
             CallSaved(im, T, SavedHook(im, T, f, cls), depth))

CallHook(im, T, f, cls, depth) ==
  IF depth = 0 THEN Raise("RecursionError")
  ELSE IF f.kind \in {"object", "absent"} THEN Ok
  ELSE IF f.kind = "user" THEN CallUser(f, T[cls], cls)
  ELSE IF f.kind = "_forbid_subclassing"
  THEN After(Event("sealed", f, cls, FALSE), Raise("RuntimeError"))
  ELSE ForbidOverridingFinals(im, T, f, cls, depth, RegistryOf(T, cls))

(* ---------------- _Final.__set_name__ ---------------- *)
\* module revision, lines 49-73: patch a class that sees no registry (r = 0)
ModulePatched(T, owner, r) ==
  IF r # 0 THEN T
  ELSE [T EXCEPT ![owner].rfm = EmptyRegistry,
                 ![owner].old = HookFrom(T, T[owner].mro),
                 ![owner].hook = ForbidOverriding(owner)]

ModulePatch(T, owner) == ModulePatched(T, owner, RegistryOwner(T, owner))

\* module revision, lines 75-79, r being the class whose registry owner sees
ModuleRegister(P, r, owner, name, target) ==
  IF P[r].rfm.map[name] # Unregistered
  THEN [table |-> P, error |-> "RuntimeError"]
  ELSE [table |-> [P EXCEPT ![r].rfm.map[name] = P[owner].name,
                            ![owner].ns[name] = target],
        error |-> "none"]

ModuleBind(P, owner, name, target) ==
  ModuleRegister(P, RegistryOwner(P, owner), owner, name, target)

ModuleSetName(T, owner, name, target) ==
  ModuleBind(ModulePatch(T, owner), owner, name, target)

\* package revision, lines 142-145
PackageAdd(T, r, owner, name) ==
  IF r # 0 THEN [T EXCEPT ![r].rfm.map[name] = InSet]
  ELSE [T EXCEPT ![owner].rfm = [EmptyRegistry EXCEPT !.map[name] = InSet]]

\* package revision, lines 147-149; target is _Final.__original_target__
PackageInstall(A, owner, name, target) ==
  [A EXCEPT ![owner].old = HookFrom(A, A[owner].mro),
            ![owner].hook = ForbidOverriding(0),
            ![owner].ns[name] = target]

PackageSetName(T, owner, name, target) ==
  [table |-> PackageInstall(PackageAdd(T, RegistryOwner(T, owner), owner, name),
                            owner, name, target),
   error |-> "none"]

SetName(im, T, owner, name, target) ==
  IF im = "module" THEN ModuleSetName(T, owner, name, target)
  ELSE PackageSetName(T, owner, name, target)

(* ---------------- final(target) on a member ---------------- *)
\* module: inspect.isfunction(target) sets target.__final__; package: the
\* resolved function (fget, __func__ or the function) gets
\* __runtime_is_final__.
Marks(im, sh) == IF im = "module" THEN sh = "function" ELSE TRUE

Target(im, sh, c, d) ==
  [cls |-> c, decl |-> d.name, shape |-> sh,
   marked |-> d.fin /\ Marks(im, sh), late |-> FALSE]

\* _Final.__original_target__ when the body has run: the target of the last
\* call of final in the body (package revision, line 122)
LastFinal(body) ==
  LET fins == {i \in 1..Len(body) : body[i].fin}
  IN  IF fins = {} THEN 0 ELSE CHOOSE i \in fins : \A j \in fins : j <= i

\* what __set_name__ binds under the name of declaration i: its own target
\* (module, self.__target) or the class attribute of _Final (package)
BoundTarget(im, sh, c, body, i) ==
  IF im = "module" THEN Target(im, sh, c, body[i])
  ELSE Target(im, sh, c, body[LastFinal(body)])

(* ---------------- the class statement ---------------- *)
DeclIndex(body, m) ==
  IF \E i \in 1..Len(body) : body[i].name = m
  THEN CHOOSE i \in 1..Len(body) : body[i].name = m
  ELSE 0

Entry(im, sh, c, body, i, m) ==
  IF i = 0 THEN NoObj
  ELSE IF body[i].fin THEN Wrapper(c, m)
  ELSE Target(im, sh, c, body[i])

\* the namespace after the body has run
Namespace(im, sh, c, body) ==
  [m \in MemberNames |-> Entry(im, sh, c, body, DeclIndex(body, m), m)]

\* f"{cls.__module__}.{cls.__name__}" of the class a statement creates: the
\* classes of the tests, Test, Test2, ..., or the name of the first base again
\* when the statement reuses it (one module throughout)
ClassName(T, c, bases, alias) ==
  IF alias /\ Len(bases) > 0 THEN T[bases[1]].name
  ELSE IF c = 1 THEN "Test" ELSE "Test" \o ToString(c)

NewClass(im, sh, T, c, alias, bases, body, req) ==
  [name |-> ClassName(T, c, bases, alias), bases |-> bases,
   mro |-> Linearise(T, c, bases),
   ns |-> Namespace(im, sh, c, body), rfm |-> NoRegistry,
   hook |-> IF req THEN UserHook(c) ELSE NoHook,
   old |-> NoHook, final |-> FALSE, body |-> body, req |-> req,
   alias |-> alias /\ Len(bases) > 0]

\* type.__new__ calls __set_name__ on the _Final instances of the namespace,
\* in the order of the body, and stops at the first that raises
RECURSIVE SetNames(_, _, _, _, _, _)
RECURSIVE SetNamesFrom(_, _, _, _, _, _)
SetNamesFrom(im, sh, c, body, i, r) ==
  IF r.error # "none" THEN r ELSE SetNames(im, sh, r.table, c, body, i + 1)

SetNames(im, sh, T, c, body, i) ==
  IF i > Len(body) THEN [table |-> T, error |-> "none"]
  ELSE IF ~body[i].fin THEN SetNames(im, sh, T, c, body, i + 1)
  ELSE SetNamesFrom(im, sh, c, body, i,
         SetName(im, T, c, body[i].name, BoundTarget(im, sh, c, body, i)))

\* super().__init_subclass__() of the new class: the hook of the next class
\* in the method resolution order, called with the new class
InitSubclass(im, T, c) ==
  CallHook(im, T, HookFrom(T, Tail(T[c].mro)), c, MaxClasses + 2)

\* The class is entered in the table only when nothing raised; what
\* __set_name__ wrote into other classes stays.
Hooked(c, T, h) ==
  [table |-> IF h.error = "none" THEN T ELSE SubSeq(T, 1, c - 1),
   error |-> h.error, calls |-> h.calls, log |-> h.log,
   phase |-> "init_subclass"]

Named(im, c, s) ==
  IF s.error # "none"
  THEN [table |-> SubSeq(s.table, 1, c - 1), error |-> s.error,
        calls |-> <<>>, log |-> <<>>, phase |-> "set_name"]
  ELSE Hooked(c, s.table, InitSubclass(im, s.table, c))

TypeNew(im, sh, T, c, rec, body) ==
  IF 0 \in SeqToSet(rec.mro)
  THEN [table |-> T, error |-> "TypeError", calls |-> <<>>, log |-> <<>>,
        phase |-> "mro"]
  ELSE Named(im, c, SetNames(im, sh, Append(T, rec), c, body, 1))

\* class Name(bases): body
ClassStatement(im, sh, T, alias, bases, body, req) ==
  TypeNew(im, sh, T, Len(T) + 1,
          NewClass(im, sh, T, Len(T) + 1, alias, bases, body, req), body)

(* ---------------- final(cls) ---------------- *)
\* module lines 159-162, package lines 121-130: mark the class and replace
\* its __init_subclass__
SealClass(T, c) ==
  [T EXCEPT ![c].final = TRUE, ![c].hook = ForbidSubclassing]

(* ---------------- is_final and get_final_methods ---------------- *)
\* is_final(cls) for a class: hasattr(cls, "__runtime_is_final__"), which
\* looks through the method resolution order of the class
IsFinalClass(T, c) == \E i \in 1..Len(T[c].mro) : T[T[c].mro[i]].final

\* is_final(obj) for a member object as the class holds it.  final sets the
\* marker on the resolved function (fget of a property, __func__ of a
\* classmethod or staticmethod); hasattr of a property object does not look
\* into fget, the other shapes show the attributes of their function.
IsFinalMember(obj) == obj.marked /\ obj.shape # "property"

\* getattr(target, name) for every name of the registry reg
FinalMembers(T, c, reg) ==
  [m \in {n \in MemberNames : reg.map[n] # Unregistered} |->
     MemberOf(T, T[c].mro, m)]

\* tuple(getattr(target, name) for name in target.__runtime_final_methods__):
\* the entries by name; getattr raises AttributeError for a name that no
\* class of the method resolution order holds
Collected(members) ==
  IF \E m \in DOMAIN members : members[m].shape = "absent"
  THEN [error |-> "AttributeError", entries |-> << >>]
  ELSE [error |-> "none", entries |-> members]

\* get_final_methods(target), reg being the registry that target sees
GetFinalMethodsOf(T, c, reg) ==
  IF ~reg.present THEN [error |-> "none", entries |-> << >>]
  ELSE Collected(FinalMembers(T, c, reg))

GetFinalMethods(T, c) == GetFinalMethodsOf(T, c, RegistryOf(T, c))

(* ---------------- the programs explored ---------------- *)
Decls == [name : MemberNames, fin : BOOLEAN]

\* class bodies: up to MaxBody member declarations under distinct names
Bodies(room) ==
  UNION {{b \in [1..n -> Decls] : \A i, j \in 1..n : i # j => b[i].name # b[j].name}
         : n \in 0..(IF room < MaxBody THEN room ELSE MaxBody)}

\* up to two distinct existing classes as bases
BaseLists(n) ==
  {<<>>} \cup {<<a>> : a \in 1..n} \cup {x \in (1..n) \X (1..n) : x[1] # x[2]}

\* the size of a class statement and of the program run so far: one for each
\* member declaration, each __init_subclass__ in a body, each reused class
\* name and each class handed to final, two for each member bound after its
\* class (a call of final and a call of __set_name__)
StatementSize(alias, body, req) ==
  Len(body) + (IF req THEN 1 ELSE 0) + (IF alias THEN 1 ELSE 0)

LateCount(rec) == 2 * Cardinality({m \in MemberNames : rec.ns[m].late})

ClassSize(rec) ==
  StatementSize(rec.alias, rec.body, rec.req)
  + (IF rec.final THEN 1 ELSE 0) + LateCount(rec)

RECURSIVE ProgramSize(_, _)
ProgramSize(T, i) ==
  IF i > Len(T) THEN 0 ELSE ClassSize(T[i]) + ProgramSize(T, i + 1)

(* ---------------- the state machine ---------------- *)
Idle ==
  [op |-> "start", cls |-> 0, member |-> "", alias |-> FALSE, bases |-> <<>>,
   body |-> <<>>, req |-> FALSE, args |-> 0, error |-> "none", calls |-> <<>>,
   log |-> <<>>, phase |-> "", marked |-> FALSE]

Init ==
  /\ impl \in Impls
  /\ shape \in Shapes
  /\ classes = <<>>
  /\ last = Idle

\* the statement ran with the result r
Ran(r, alias, bases, body, req) ==
  /\ classes' = r.table
  /\ last' = [Idle EXCEPT !.op = "class", !.cls = Len(classes) + 1,
                          !.alias = alias, !.bases = bases, !.body = body,
                          !.req = req, !.error = r.error,
                          !.calls = r.calls, !.log = r.log,
                          !.phase = r.phase]

\* class Name(bases): body, with `def __init_subclass__` in the body when
\* req, and named like its first base when alias
DefineClass(alias, bases, body, req) ==
  /\ last.error = "none"
  /\ Len(classes) < MaxClasses
  /\ alias => Len(bases) > 0
  /\ ProgramSize(classes, 1) + StatementSize(alias, body, req) <= MaxCost
  /\ Ran(ClassStatement(impl, shape, classes, alias, bases, body, req),
         alias, bases, body, req)
  /\ UNCHANGED <<impl, shape>>

\* final(cls) on a class that exists
FinalClass(c) ==
  /\ last.error = "none"
  /\ c \in 1..Len(classes)
  /\ ~classes[c].final
  /\ ProgramSize(classes, 1) < MaxCost
  /\ classes' = SealClass(classes, c)
  /\ last' = [Idle EXCEPT !.op = "final", !.cls = c]
  /\ UNCHANGED <<impl, shape>>

LateTarget(c, m) ==
  [cls |-> c, decl |-> m, shape |-> "function", marked |-> TRUE, late |-> TRUE]

Bound(r, c, m) ==
  /\ classes' = r.table
  /\ last' = [Idle EXCEPT !.op = "set_name", !.cls = c, !.member = m,
                          !.error = r.error]

\* final(f).__set_name__(cls, name) on a class that exists, f a new function
BindFinal(c, m) ==
  /\ last.error = "none"
  /\ c \in 1..Len(classes)
  /\ ProgramSize(classes, 1) + 2 <= MaxCost
  /\ Bound(SetName(impl, classes, c, m, LateTarget(c, m)), c, m)
  /\ UNCHANGED <<impl, shape>>

\* func(*args) for func = final(f), f a plain function outside every class:
\* the module revision defines _Final.__call__, which raises RuntimeError for
\* every argument list; the _Final of the package revision defines no
\* __call__, so the call raises TypeError ("'_Final' object is not callable")
CallFinal(im, nargs) ==
  IF im = "module" THEN Raise("RuntimeError") ELSE Raise("TypeError")

\* @final def func(...): pass, then func(*args), as in test_final_function
CallFinalFunction(nargs) ==
  /\ last.error = "none"
  /\ ProgramSize(classes, 1) < MaxCost
  /\ last' = [Idle EXCEPT !.op = "call", !.args = nargs,
                          !.error = CallFinal(impl, nargs).error]
  /\ UNCHANGED <<impl, shape, classes>>

\* final(target) for a target outside every class, module revision, lines
\* 163-171: a function is marked and wrapped, a property, classmethod or
\* staticmethod is wrapped, anything else raises RuntimeError
ModuleFinal(kind) ==
  IF kind = "function" THEN [error |-> "none", marked |-> TRUE]
  ELSE IF kind \in {"property", "staticmethod", "classmethod"}
  THEN [error |-> "none", marked |-> FALSE]
  ELSE [error |-> "RuntimeError", marked |-> FALSE]

\* package revision, _Final.__new__ lines 121-132 with _resolve_target: the
\* marker is set on whatever the target resolves to, with no test of its
\* type; setting it raises AttributeError on an object that takes no
\* attributes
PackageFinal(kind) ==
  IF kind = "int" THEN [error |-> "AttributeError", marked |-> FALSE]
  ELSE [error |-> "none", marked |-> TRUE]

FinalOf(im, kind) ==
  IF im = "module" THEN ModuleFinal(kind) ELSE PackageFinal(kind)

Applied(r, kind) ==
  last' = [Idle EXCEPT !.op = "final_target", !.member = kind,
                       !.error = r.error, !.marked = r.marked]

\* final(target) for a target that is not a class of the program
FinalTarget(kind) ==
  /\ last.error = "none"
  /\ ProgramSize(classes, 1) < MaxCost
  /\ Applied(FinalOf(impl, kind), kind)
  /\ UNCHANGED <<impl, shape, classes>>

\* The caller handles the exception of the latest statement (the tests'
\* `with self.assertRaises(RuntimeError):`) and the program goes on.
AssertRaises ==
  /\ last.error # "none"
  /\ last' = [Idle EXCEPT !.op = "handled"]
  /\ UNCHANGED <<impl, shape, classes>>

Next ==
  \/ \E alias \in BOOLEAN, bases \in BaseLists(Len(classes)),
        body \in Bodies(MaxCost - ProgramSize(classes, 1)), req \in BOOLEAN :
        DefineClass(alias, bases, body, req)
  \/ \E c \in 1..MaxClasses : FinalClass(c)
  \/ \E c \in 1..MaxClasses, m \in MemberNames : BindFinal(c, m)
  \/ \E nargs \in 0..MaxArgs : CallFinalFunction(nargs)
  \/ \E kind \in Shapes \cup Unsupported : FinalTarget(kind)
  \/ AssertRaises

Spec == Init /\ [][Next]_vars

(* ---------------- properties: vocabulary ---------------- *)
\* the body of class rec applies final to its declaration of m
Finalises(rec, m) ==
  \E i \in 1..Len(rec.body) : rec.body[i].name = m /\ rec.body[i].fin

Declares(body, m) == \E i \in 1..Len(body) : body[i].name = m

\* the latest statement was a class statement; its bases can be linearised
Attempt == last.op = "class" /\ 0 \notin SeqToSet(Linearise(classes, last.cls, last.bases))

\* the classes the attempted class descends from
Ancestors == UNION {SeqToSet(classes[last.bases[i]].mro) : i \in 1..Len(last.bases)}

Created == last.error = "none" /\ Len(classes) = last.cls
Refused == last.error = "RuntimeError" /\ Len(classes) < last.cls

\* no ancestor was handed to final, wrote a hook in its body, or had a member
\* bound after its class statement
NoBodyHooks == \A a \in Ancestors : ~classes[a].req
NoneSealed == \A a \in Ancestors : ~classes[a].final
NoneLate == \A a \in Ancestors : \A m \in MemberNames : ~classes[a].ns[m].late

FinalisedAbove(m) == \E a \in Ancestors : Finalises(classes[a], m)
SomeFinalAbove == \E m \in MemberNames : FinalisedAbove(m)

(* ---------------- properties ---------------- *)
\* C1: a class handed to final can never be subclassed: every class statement
\* that has a sealed class among its ancestors, whatever its other bases and
\* its body, ends in RuntimeError and creates no class.  (Stated for programs
\* in which no ancestor wrote an __init_subclass__ of its own, so that only
\* the hooks of the library decide.)
C1_SealedNeverSubclassed ==
  (Attempt /\ NoBodyHooks /\ \E a \in Ancestors : classes[a].final) => Refused

\* C2: a class statement whose body declares a name that an ancestor
\* finalised, final or not, ends in RuntimeError and creates no class.
\* (Stated for the module revision, for classes with names of their own and
\* ancestors without hooks of their own.)
C2_FinalMemberNeverRedeclared ==
  (/\ Attempt /\ impl = "module" /\ ~last.alias /\ NoBodyHooks
   /\ \E m \in MemberNames : FinalisedAbove(m) /\ Declares(last.body, m))
  => Refused

\* C3: a class statement that declares only plain members under names that no
\* ancestor finalised succeeds, whatever statements succeeded or failed before.
C3_UnfinalisedNamesAreFree ==
  (/\ Attempt /\ NoBodyHooks /\ NoneSealed /\ NoneLate
   /\ Len(last.body) > 0
   /\ \A i \in 1..Len(last.body) :
        ~last.body[i].fin /\ ~FinalisedAbove(last.body[i].name))
  => Created

\* C4: a class statement under ancestors with final members (one or several)
\* whose body declares none of their final names succeeds, and every name the
\* body does not declare resolves in the new class to the object it resolves
\* to in its bases.
C4_SubclassingWithoutOverride ==
  (/\ Attempt /\ NoBodyHooks /\ NoneSealed /\ NoneLate /\ SomeFinalAbove
   /\ \A i \in 1..Len(last.body) :
        ~last.body[i].fin /\ ~FinalisedAbove(last.body[i].name))
  => /\ Created
     /\ \A m \in MemberNames : ~Declares(last.body, m) =>
          MemberOf(classes, classes[last.cls].mro, m)
            = MemberOf(classes, Tail(classes[last.cls].mro), m)

\* C5: under ancestors with final members a class may finalise a name that no
\* ancestor finalised: its class statement succeeds; and a later class
\* statement under it that declares that name ends in RuntimeError.
C5_NewFinalInSubclass ==
  /\ (/\ Attempt /\ NoBodyHooks /\ NoneSealed /\ NoneLate /\ SomeFinalAbove
      /\ \E i \in 1..Len(last.body) : last.body[i].fin
      /\ \A i \in 1..Len(last.body) : ~FinalisedAbove(last.body[i].name))
     => Created
  /\ (/\ Attempt /\ Len(last.bases) = 1 /\ ~last.alias
      /\ Len(classes[last.bases[1]].bases) > 0
      /\ \E m \in MemberNames :
           Finalises(classes[last.bases[1]], m) /\ Declares(last.body, m))
     => Refused

\* C6: every name a class body finalised is bound, in that class, to the
\* object the body handed to final under that name.
C6_FinalMembersKeepTheirObjects ==
  \A c \in 1..Len(classes) : \A m \in MemberNames :
     (Finalises(classes[c], m) /\ ~classes[c].ns[m].late)
     => classes[c].ns[m] = Target(impl, shape, c, [name |-> m, fin |-> TRUE])

\* C7: when class T has a final member and an __init_subclass__ of its own,
\* a successful class statement with the base T calls that hook with the new
\* class, and never with T.
C7_PreviousHookSeesSubclass ==
  (/\ Attempt /\ Created /\ Len(last.bases) = 1
   /\ classes[last.bases[1]].req
   /\ \E m \in MemberNames : Finalises(classes[last.bases[1]], m))
  => /\ \E i \in 1..Len(last.calls) :
          last.calls[i] = [hook |-> last.bases[1], subject |-> last.cls]
     /\ \A i \in 1..Len(last.calls) : last.calls[i].subject # last.bases[1]

\* C8: when class T has a final member and an __init_subclass__ of its own
\* that rejects some classes, a class statement with the base T that
\* overrides nothing final but breaks the rule of that hook ends in the
\* error of that hook.
C8_UnrelatedRuleStillApplies ==
  (/\ Attempt /\ Len(last.bases) = 1 /\ NoneSealed /\ NoneLate
   /\ classes[last.bases[1]].req
   /\ \E m \in MemberNames : Finalises(classes[last.bases[1]], m)
   /\ \A i \in 1..Len(last.body) :
        ~last.body[i].fin /\ ~FinalisedAbove(last.body[i].name)
   /\ ClassName(classes, last.cls, last.bases, last.alias) # HookRequires)
  => (last.error = "AssertionError" /\ Len(classes) < last.cls)

\* the scenario of C9 for the member n: class Base finalises n, class
\* Mid(Base) under a name of its own does not declare n and writes no hook,
\* and the latest statement is class Leaf(Mid) under a name of its own with
\* a declaration of n
IndirectOverride(n) ==
  /\ Attempt /\ Len(last.bases) = 1 /\ ~last.alias
  /\ Declares(last.body, n)
  /\ Len(classes[last.bases[1]].bases) = 1
  /\ ~classes[last.bases[1]].alias /\ ~classes[last.bases[1]].req
  /\ ~Declares(classes[last.bases[1]].body, n)
  /\ classes[classes[last.bases[1]].bases[1]].bases = <<>>
  /\ Finalises(classes[classes[last.bases[1]].bases[1]], n)

\* the record of C9: seen from Mid, the registry that holds n is the one of
\* Base, and (module revision) it names Base, not Mid, as the finaliser
AttributedToBase(mid, base, n) ==
  /\ RegistryOwner(classes, mid) = base
  /\ RegistryOf(classes, mid).map[n] # Unregistered
  /\ impl = "module" =>
       /\ RegistryOf(classes, mid).map[n] = classes[base].name
       /\ RegistryOf(classes, mid).map[n] # classes[mid].name

\* C9: Base finalises a member, Mid(Base) does not declare it: class
\* Leaf(Mid) with a declaration of that member ends in RuntimeError, no class
\* is created, and the finalising class on record is Base, never Mid.
C9_IndirectOverrideRefused ==
  \A n \in MemberNames :
    IndirectOverride(n) =>
      /\ Refused
      /\ AttributedToBase(last.bases[1], classes[last.bases[1]].bases[1], n)

\* a state in which Leaf(Mid) has just been refused for redeclaring a member
\* that Base finalised
C9_Witness ==
  /\ \E n \in MemberNames : IndirectOverride(n)
  /\ Refused
  /\ last.phase = "init_subclass"

\* C10: registering a name as final again, on the class whose body finalised
\* it, succeeds and leaves the entry of the registry as it was.
C10_RepeatedRegistration ==
  (last.op = "set_name" /\ Finalises(classes[last.cls], last.member))
  => /\ last.error = "none"
     /\ RegistryOf(classes, last.cls).map[last.member]
          = (IF impl = "module" THEN classes[last.cls].name ELSE InSet)

\* the member object was handed to final: by the body of its class, or
\* before it was bound into the class afterwards
PassedToFinal(obj) ==
  obj.shape # "absent" /\ (obj.late \/ Finalises(classes[obj.cls], obj.decl))

\* C11: is_final is true exactly for the classes that were handed to final
\* and for the members that were handed to final and bound into a class; it
\* is false for the other classes and the other members.  (is_final exists in
\* the package revision.)
C11_IsFinalExact ==
  impl = "package" =>
    \A c \in 1..Len(classes) :
      /\ IsFinalClass(classes, c) = classes[c].final
      /\ \A m \in MemberNames :
           classes[c].ns[m].shape # "absent" =>
             IsFinalMember(classes[c].ns[m]) = PassedToFinal(classes[c].ns[m])

\* the names class c finalised itself: in its body, or bound afterwards
OwnFinalNames(c) ==
  {m \in MemberNames : Finalises(classes[c], m) \/ classes[c].ns[m].late}

\* C12: get_final_methods(T) returns without error one entry for exactly each
\* name that T finalised itself; names finalised by an ancestor or by a
\* descendant only are not among them.  (get_final_methods exists in the
\* package revision.)
C12_OwnFinalMembersOnly ==
  impl = "package" =>
    \A c \in 1..Len(classes) :
      /\ GetFinalMethods(classes, c).error = "none"
      /\ DOMAIN GetFinalMethods(classes, c).entries = OwnFinalNames(c)

\* C13: the value final returns for a plain function that is bound in no
\* class raises RuntimeError when it is called, whatever the arguments.
C13_UnboundFinalNotCallable ==
  last.op = "call" => last.error = "RuntimeError"

\* what the library keeps on a class: its registry, its sealed flag, its
\* hook and the hook saved from it
Kept(rec) == [rfm |-> rec.rfm, final |-> rec.final, hook |-> rec.hook, old |-> rec.old]

\* C14: a class statement that ends in RuntimeError (sealed ancestor, or
\* override of a final member) leaves the registry, the sealed flag and the
\* hooks of every class that existed before as they were, also when its body
\* handed other members to final.
C14_RefusedAttemptChangesNothing ==
  [][(last'.op = "class" /\ last'.error = "RuntimeError")
       => \A c \in 1..Len(classes) : Kept(classes'[c]) = Kept(classes[c])]_vars

\* C15: a class statement that succeeds, also one that hands new members to
\* final, changes the registry of no class that existed before.
C15_RegistryWrittenByOwnClassOnly ==
  [][(last'.op = "class" /\ last'.error = "none")
       => \A c \in 1..Len(classes) : classes'[c].rfm = classes[c].rfm]_vars

\* the names that the check of the hook goes through for the class of the
\* latest class statement: those of cls.__runtime_final_methods__, the first
\* registry along the method resolution order after the class itself
CheckedNamesOf(reg) == {m \in MemberNames : reg.map[m] # Unregistered}

CheckedNamesAlong(order) ==
  CheckedNamesOf(RegistryAt(classes, FirstOf(order, WithRegistry(classes, order))))

CheckedNames ==
  CheckedNamesAlong(Tail(Linearise(classes, last.cls, last.bases)))

\* C16: the names a new class must not declare are the final names of all
\* its ancestors, at every level and through every base: each of them is
\* among the names the check goes through, and a class statement that
\* declares one of them is refused.
C16_UnionOverAllAncestors ==
  Attempt =>
    \A m \in MemberNames :
      FinalisedAbove(m) =>
        /\ m \in CheckedNames
        /\ (Declares(last.body, m) /\ ~last.alias /\ NoBodyHooks) => Refused

\* the __init_subclass__ a class without bases has when its body has run
BodyHook(c) == IF classes[c].req THEN UserHook(c) ELSE ObjectHook

\* C17: whatever the number of final members of a class, the hook the
\* library saved for it is never the hook of the library itself; for a class
\* without bases whose finals all come from its body it is the hook the class
\* had before: the one of its body, or the one of `object`.
C17_SavedHookIsTheOriginal ==
  \A c \in 1..Len(classes) :
    (\E m \in MemberNames : Finalises(classes[c], m)) =>
      /\ classes[c].old.kind # "_forbid_overriding_finals"
      /\ (classes[c].bases = << >> /\ \A m \in MemberNames : ~classes[c].ns[m].late)
           => classes[c].old = BodyHook(c)

\* the hook super().__init_subclass__() finds for the class of the latest
\* class statement
FoundHook == HookFrom(classes, Tail(Linearise(classes, last.cls, last.bases)))

\* the hook that the check logged as ev delegates to
SavedAfter(ev) ==
  SavedHook(impl, classes, ForbidOverriding(ev.hook), ev.subject).f

\* C18: in a class statement that reaches __init_subclass__ with the hook of
\* the library, the check of the final names of the new class runs first; a
\* check that fails is the last thing that runs and the statement ends in its
\* RuntimeError; after a check that passes the saved hook is called, unless
\* none or only the one of `object` was saved; and the error of a hook of a
\* class body ends the statement.
C18_CheckThenSavedHook ==
  (last.op = "class" /\ last.phase = "init_subclass") =>
    /\ FoundHook.kind = "_forbid_overriding_finals" =>
         /\ Len(last.log) >= 1
         /\ last.log[1].kind = "check"
         /\ last.log[1].subject = last.cls
    /\ \A i \in 1..Len(last.log) :
         /\ (last.log[i].kind = "check" /\ ~last.log[i].passed)
              => (i = Len(last.log) /\ Refused)
         /\ (last.log[i].kind = "check" /\ last.log[i].passed /\ i = Len(last.log))
              => /\ last.error = "none"
                 /\ SavedAfter(last.log[i]).kind \in {"absent", "object"}
         /\ (last.log[i].kind = "hook" /\ ~last.log[i].passed)
              => /\ i = Len(last.log)
                 /\ last.error = "AssertionError"
                 /\ Len(classes) < last.cls

\* a class statement in which the check passed and the saved hook of a class
\* body then refused the class
C18_Witness ==
  /\ last.op = "class" /\ Len(last.log) = 2
  /\ last.log[1].kind = "check" /\ last.log[1].passed
  /\ last.log[2].kind = "hook" /\ ~last.log[2].passed
  /\ last.error = "AssertionError"

\* the checks of the final names that ran in the latest class statement
ChecksRun == {i \in 1..Len(last.log) : last.log[i].kind = "check"}

\* C19: in a class statement that reaches __init_subclass__ with the hook of
\* the library, the check of the final names runs exactly once, on the class
\* being defined, and never again on another class.
C19_CheckRunsOnce ==
  (/\ last.op = "class" /\ last.phase = "init_subclass"
   /\ FoundHook.kind = "_forbid_overriding_finals")
  => /\ Cardinality(ChecksRun) = 1
     /\ \A i \in ChecksRun : last.log[i].subject = last.cls

\* C20: a class statement with a sealed base whose body redeclares a final
\* member of that base or hands members to final ends in the RuntimeError of
\* _forbid_subclassing, and before that no check of final names has run and
\* no registry of an existing class was written.  (Stated for the module
\* revision.)
C20_SealedBeforeMembers ==
  [][(/\ impl = "module" /\ last'.op = "class" /\ Len(last'.bases) = 1
      /\ classes[last'.bases[1]].final
      /\ \E i \in 1..Len(last'.body) :
           \/ last'.body[i].fin
           \/ Finalises(classes[last'.bases[1]], last'.body[i].name))
     => /\ last'.error = "RuntimeError"
        /\ Len(last'.log) = 1 /\ last'.log[1].kind = "sealed"
        /\ \A c \in 1..Len(classes) : classes'[c].rfm = classes[c].rfm]_vars

\* C21: final raises RuntimeError and marks nothing for a target that is
\* not a class, a function, a property, a classmethod or a staticmethod, and
\* it raises nothing for a target of these five shapes.
C21_OnlySupportedTargets ==
  /\ last.op = "final" => last.error = "none"
  /\ last.op = "final_target" =>
       IF last.member \in Shapes THEN last.error = "none"
       ELSE last.error = "RuntimeError" /\ ~last.marked

\* every ancestor of the attempted class has at most one base
SingleChain == Len(last.bases) = 1 /\ \A a \in Ancestors : Len(classes[a].bases) <= 1

\* C22: only the class that finalised a name may declare it: a class
\* statement under that class which declares the name without final is
\* refused, also when the new class has the module and the name of the
\* finalising class.  (Stated for the module revision, for single inheritance
\* and ancestors without hooks of their own.)
C22_ExemptionByIdentity ==
  (/\ Attempt /\ impl = "module" /\ SingleChain /\ NoBodyHooks
   /\ \E i \in 1..Len(last.body) :
        ~last.body[i].fin /\ FinalisedAbove(last.body[i].name))
  => Refused

====
